---- MODULE Spec2Model ----
(***************************************************************************)
(* The HTTP client layer of testme-api-tests: BaseClient (token field,     *)
(* header construction, token fetch/extraction, the five verbs),           *)
(* AuthClient (login, logout), TestCasesClient and StatsClient, over an    *)
(* external transport whose answers are nondeterministic.                  *)
(*                                                                         *)
(* Python values are modelled as follows.  A str is [str |-> s] with s a   *)
(* sequence of one-character strings; None is [none |-> TRUE]; a dict is a *)
(* function from its keys.  Each client method is one action: the          *)
(* transport's answers are its inputs, and the requests it sent, in order, *)
(* and its outcome are recorded in `last` for the caller to inspect.       *)
(***************************************************************************)
EXTENDS Integers, Sequences, FiniteSets, TLC

VARIABLES token, class, last

\* The run of a test with its fixtures (conftest.py): the cookie store of the
\* request context, the position of the test, the requests sent so far, the
\* id the fixture created, the test's verdict, the errors that left a fixture,
\* the clock and the names the generator handed out.
VARIABLES jar, pc, requests, created, verdict, escaped, clock, names

suiteVars == <<jar, pc, requests, created, verdict, escaped, clock, names>>

vars == <<token, class, last, suiteVars>>

(***************************************************************************)
(* Bounds of the model.                                                    *)
(***************************************************************************)
MaxTextLen == 2

\* the tests array of a list response holds up to MaxListLen items
MaxListLen == 2

(***************************************************************************)
(* Python values.                                                          *)
(***************************************************************************)
None == [none |-> TRUE]

Str(s) == [str |-> s]

IsNone(v) == "none" \in DOMAIN v

\* bool(v) of a value that is None or a str
Truthy(v) == IF IsNone(v) THEN FALSE ELSE v.str # <<>>

PyInt(n) == [int |-> n]

DigitChar == <<"0","1","2","3","4","5","6","7","8","9">>

RECURSIVE NatDigits(_)
NatDigits(n) ==
    IF n < 10 THEN <<DigitChar[n + 1]>>
    ELSE NatDigits(n \div 10) \o <<DigitChar[(n % 10) + 1]>>

\* str(v) of a value that is an int or a str
PyStr(v) ==
    IF "int" \in DOMAIN v
    THEN (IF v.int < 0 THEN <<"-">> \o NatDigits(0 - v.int) ELSE NatDigits(v.int))
    ELSE v.str

\* the str made of n times the character ch
Rep(ch, n) == [i \in 1..n |-> ch]

Lower ==
    {"a","b","c","d","e","f","g","h","i","j","k","l","m",
     "n","o","p","q","r","s","t","u","v","w","x","y","z"}

Upper ==
    {"A","B","C","D","E","F","G","H","I","J","K","L","M",
     "N","O","P","Q","R","S","T","U","V","W","X","Y","Z"}

Digits == {"0","1","2","3","4","5","6","7","8","9"}

\* the character class [a-zA-Z0-9]
IsAlnum(ch) == ch \in Lower \cup Upper \cup Digits

\* the characters str.strip() removes
Whitespace == {" ", "\t", "\n", "\r"}

RECURSIVE LStrip(_)
LStrip(s) ==
    IF s # <<>> /\ Head(s) \in Whitespace THEN LStrip(Tail(s)) ELSE s

RECURSIVE RStrip(_)
RStrip(s) ==
    IF s # <<>> /\ s[Len(s)] \in Whitespace
    THEN RStrip(SubSeq(s, 1, Len(s) - 1))
    ELSE s

\* str.strip()
Strip(s) == RStrip(LStrip(s))

\* the literal part of token_pattern, "csrftoken="
TokenPrefix == <<"c","s","r","f","t","o","k","e","n","=">>

\* the longest run of [a-zA-Z0-9] that starts at position i of s
RECURSIVE AlnumRun(_, _)
AlnumRun(s, i) ==
    IF i <= Len(s) /\ IsAlnum(s[i]) THEN <<s[i]>> \o AlnumRun(s, i + 1) ELSE <<>>

\* the positions at which r"csrftoken=([a-zA-Z0-9]+)" matches in s
MatchStarts(s) ==
    {i \in 1..Len(s) :
        /\ i + Len(TokenPrefix) <= Len(s)
        /\ SubSeq(s, i, i + Len(TokenPrefix) - 1) = TokenPrefix
        /\ IsAlnum(s[i + Len(TokenPrefix)])}

\* re.search(token_pattern, s): group(1) of the leftmost match, or no match
ReSearch(s) ==
    IF MatchStarts(s) = {}
    THEN [matched |-> FALSE, group1 |-> <<>>]
    ELSE LET i == CHOOSE k \in MatchStarts(s) : \A j \in MatchStarts(s) : k <= j
         IN  [matched |-> TRUE, group1 |-> AlnumRun(s, i + Len(TokenPrefix))]

(***************************************************************************)
(* settings: the endpoint URLs, relative to api_base_url.                  *)
(***************************************************************************)
auth_token_url == <<"/api/auth/token">>

auth_login_url == <<"/api/auth/login">>

auth_logout_url == <<"/api/auth/logout">>

tests_url == <<"/api/tests">>

tests_new_url == <<"/api/tests/new">>

stats_url == <<"/api/getstat">>

\* f"{api_base_url}/api/tests/{test_id}", test_id a str
get_test_url(test_id) == <<"/api/tests/">> \o test_id

\* f"{api_base_url}/api/tests/{test_id}/status"
get_test_status_url(test_id) == <<"/api/tests/">> \o test_id \o <<"/status">>

(***************************************************************************)
(* The transport (Playwright's APIRequestContext): what a call can answer. *)
(***************************************************************************)
Clients == {"auth", "api"}

Statuses == {200, 201, 401}

TextChars == {" ", "a"}

RECURSIVE SeqsUpTo(_, _)
SeqsUpTo(S, n) ==
    IF n = 0 THEN {<<>>}
    ELSE LET shorter == SeqsUpTo(S, n - 1)
         IN  shorter \cup {Append(s, x) : s \in {t \in shorter : Len(t) = n - 1}, x \in S}

\* response.text(): the body, or an error when the body cannot be read
Texts == {Str(s) : s \in SeqsUpTo(TextChars, MaxTextLen)} \cup {[raises |-> "PlaywrightError"]}

PlainHeaders == [h \in {"content-length"} |-> Str(<<"0">>)]

WithSetCookie(v) == [h \in {"content-length", "set-cookie"} |->
                        IF h = "set-cookie" THEN v ELSE Str(<<"0">>)]

CookieXY == TokenPrefix \o <<"x","y">>

CookieMiddle ==
    <<"s","i","d","=","1",";"," ">> \o TokenPrefix \o <<"x","y",";"," ","P","a","t","h","=","/">>

CookieNoValue == TokenPrefix \o <<";"," ","P","a","t","h","=","/">>

CookieSecond == TokenPrefix \o <<";">> \o TokenPrefix \o <<"a","-","b">>

\* response.headers: a dict, or an error raised by the accessor
HeaderVariants ==
    {[dict |-> WithSetCookie(Str(c))] :
        c \in {<<>>, CookieXY, CookieMiddle, CookieNoValue, CookieSecond}}
    \cup {[dict |-> WithSetCookie([nonstr |-> TRUE])]}
    \cup {[raises |-> e] : e \in {"AttributeError", "PlaywrightError"}}

Response(st, tx, hd) == [kind |-> "response", status |-> st, text |-> tx, headers |-> hd]

Responses ==
    {Response(st, tx, [dict |-> PlainHeaders]) : st \in Statuses, tx \in Texts}
    \cup {Response(st, Str(<<>>), hd) : st \in Statuses, hd \in HeaderVariants}

TransportFailures == {"TimeoutError", "ConnectionError"}

\* what one call of request_context.get/post/put/patch/delete can do
Outcomes == Responses \cup {[kind |-> "failure", exc |-> e] : e \in TransportFailures}

(***************************************************************************)
(* BaseClient.                                                             *)
(***************************************************************************)
get_base_headers ==
    [h \in {"Content-Type", "Accept", "Connection"} |->
        IF h = "Connection" THEN "keep-alive" ELSE "application/json"]

\* variant: the header is added whenever the token is not None
get_headers_with_token_not_none(tok) ==
    IF ~IsNone(tok)
    THEN [h \in DOMAIN get_base_headers \cup {"X-CSRFToken"} |->
            IF h = "X-CSRFToken" THEN tok ELSE get_base_headers[h]]
    ELSE get_base_headers

get_headers_with_token(tok) ==
    IF Truthy(tok)
    THEN [h \in DOMAIN get_base_headers \cup {"X-CSRFToken"} |->
            IF h = "X-CSRFToken" THEN tok ELSE get_base_headers[h]]
    ELSE get_base_headers

\* a headers argument: not given (None), or a dict
NoHeaders == [given |-> FALSE]

Headers(d) == [given |-> TRUE, dict |-> d]

\* `headers or self.get_headers_with_token()`
HeadersOr(tok, headers) ==
    IF headers.given /\ DOMAIN headers.dict # {}
    THEN headers.dict
    ELSE get_headers_with_token(tok)

Returned(r) == [kind |-> "returned", resp |-> r]

Raised(e) == [kind |-> "raised", exc |-> e]

Value(v) == [kind |-> "value", val |-> v]

Call(verb, url, headers, payload, res) ==
    [verb |-> verb, url |-> url, headers |-> headers, payload |-> payload, res |-> res]

(***************************************************************************)
(* utils/logger.py: the request and response entries of the log file.      *)
(***************************************************************************)
\* a value json.dumps cannot serialise (bytes, a set, a datetime)
Unserializable == [bytes |-> TRUE]

\* json.dumps(d, indent=2) of a dict returns: every value is serialisable
JsonSerializable(d) == \A k \in DOMAIN d : "bytes" \notin DOMAIN d[k]

\* the error Logger.add_request raises before it writes its entry, "none"
\* when it records the entry: `if body:` then json.dumps of a dict body
\* (the values of a headers dict are str, which json.dumps serialises)
AddRequestError(headers, body) ==
    IF ~IsNone(body) /\ DOMAIN body # {} /\ ~JsonSerializable(body)
    THEN "TypeError"
    ELSE "none"

\* Logger.add_response writes its entry: dict(response.headers) is read first
\* and every error is swallowed by the enclosing `except Exception: pass`
ResponseLogged(res) == "raises" \notin DOMAIN res.headers

Event(ev, verb, url) == [ev |-> ev, verb |-> verb, url |-> url]

\* variant: a verb that raises for a status of 400 and above
VerbOutRaisesForStatus(res) ==
    IF res.kind = "failure" THEN Raised(res.exc)
    ELSE IF res.status >= 400 THEN Raised("HTTPStatusError")
    ELSE Returned(res)

\* variant: a verb that wraps the transport's failure in an error of its own
VerbOutWrapsFailure(res) ==
    IF res.kind = "failure" THEN Raised("RequestError") ELSE Returned(res)

\* the outcome of a verb: the transport's response, or its failure propagating
VerbOut(res) == IF res.kind = "failure" THEN Raised(res.exc) ELSE Returned(res)

\* variant: the entries are written whatever skip_logging says
LogsAlways(skip_logging) == TRUE

\* `if not skip_logging:` around Logger.add_request and Logger.add_response
Logs(skip_logging) == ~skip_logging

\* a verb: Logger.add_request, the transport call, Logger.add_response
Verb(verb, tok, url, payload, headers, skip_logging, res) ==
    LET hd  == HeadersOr(tok, headers)
        err == IF Logs(skip_logging) THEN AddRequestError(hd, payload) ELSE "none"
    IN  IF err # "none"
        THEN [calls |-> <<>>, trace |-> <<>>, out |-> Raised(err)]
        ELSE [calls |-> <<Call(verb, url, hd, payload, res)>>,
              trace |-> (IF Logs(skip_logging)
                         THEN <<Event("request_log", verb, url)>> ELSE <<>>)
                        \o <<Event("transport", verb, url)>>
                        \o (IF Logs(skip_logging) /\ res.kind = "response"
                               /\ ResponseLogged(res)
                            THEN <<Event("response_log", verb, url)>> ELSE <<>>),
              out   |-> VerbOut(res)]

get(tok, url, headers, params, skip_logging, res) ==
    Verb("GET", tok, url, params, headers, skip_logging, res)

post(tok, url, data, headers, res) == Verb("POST", tok, url, data, headers, FALSE, res)

put(tok, url, data, headers, res) == Verb("PUT", tok, url, data, headers, FALSE, res)

patch(tok, url, data, headers, res) == Verb("PATCH", tok, url, data, headers, FALSE, res)

delete(tok, url, headers, res) == Verb("DELETE", tok, url, None, headers, FALSE, res)

\* variant: any 2xx status is taken for success
TokenFromFetchAny2xx(out) ==
    IF out.kind = "raised" THEN None
    ELSE IF out.resp.status < 200 \/ out.resp.status >= 300 THEN None
    ELSE IF "raises" \in DOMAIN out.resp.text THEN None
    ELSE IF Strip(out.resp.text.str) # <<>> THEN Str(Strip(out.resp.text.str))
    ELSE None

\* the value get_csrf_token computes from the outcome of its GET
TokenFromFetch(out) ==
    IF out.kind = "raised" THEN None
    ELSE IF out.resp.status # 200 THEN None
    ELSE IF "raises" \in DOMAIN out.resp.text THEN None
    ELSE IF Strip(out.resp.text.str) # <<>> THEN Str(Strip(out.resp.text.str))
    ELSE None

get_csrf_token(tok, res) ==
    LET r == get(tok, auth_token_url, NoHeaders, None, TRUE, res)
    IN  [calls |-> r.calls, trace |-> r.trace, out |-> Value(TokenFromFetch(r.out))]

\* headers.get("set-cookie", "")
SetCookieOf(d) == IF "set-cookie" \in DOMAIN d THEN d["set-cookie"] ELSE Str(<<>>)

CaughtByExtract == {"AttributeError", "KeyError", "TypeError"}

\* the error, if any, raised inside the try block of extract_csrf_token
ExtractError(resp) ==
    IF "raises" \in DOMAIN resp.headers THEN resp.headers.raises
    ELSE IF "nonstr" \in DOMAIN SetCookieOf(resp.headers.dict) THEN "TypeError"
    ELSE "none"

extract_csrf_token(resp) ==
    LET err == ExtractError(resp)
    IN  IF err = "none"
        THEN LET m == ReSearch(SetCookieOf(resp.headers.dict).str)
             IN  Value(IF m.matched THEN Str(m.group1) ELSE None)
        ELSE IF err \in CaughtByExtract THEN Value(None)
        ELSE Raised(err)

(***************************************************************************)
(* AuthClient.                                                             *)
(***************************************************************************)
LoginData(username, password) == [username |-> username, password |-> password]

\* variant: `if self.csrf_token is None:`
NeedsFetchIsNone(tok) == IsNone(tok)

\* `if not self.csrf_token:` the token is fetched first
NeedsFetch(tok) == ~Truthy(tok)

\* variant: the extraction's value is stored whatever it is
LoginTokenAlways(held, x) == x

\* variant: the extraction's value is never stored
LoginTokenKeep(held, x) == held

\* `if token: self.csrf_token = token` after the POST, x the extraction's value
LoginToken(held, x) == IF Truthy(x) THEN x ELSE held

\* variant: the cookie is looked at only after a login answered with 200
loginOnSuccess(tok, username, password, res1, res2) ==
    LET f    == get_csrf_token(tok, res1)
        tok1 == IF NeedsFetch(tok) THEN f.out.val ELSE tok
        p    == post(tok1, auth_login_url, LoginData(username, password), NoHeaders, res2)
        x    == extract_csrf_token(res2)
        sent == (IF NeedsFetch(tok) THEN f.calls ELSE <<>>) \o p.calls
        tr   == (IF NeedsFetch(tok) THEN f.trace ELSE <<>>) \o p.trace
    IN  IF p.out.kind = "raised"
        THEN [calls |-> sent, trace |-> tr, out |-> p.out, token |-> tok1]
        ELSE IF res2.status # 200
        THEN [calls |-> sent, trace |-> tr, out |-> p.out, token |-> tok1]
        ELSE IF x.kind = "raised"
        THEN [calls |-> sent, trace |-> tr, out |-> x, token |-> tok1]
        ELSE [calls |-> sent, trace |-> tr, out |-> p.out,
              token |-> LoginToken(tok1, x.val)]

login(tok, username, password, res1, res2) ==
    LET f    == get_csrf_token(tok, res1)
        tok1 == IF NeedsFetch(tok) THEN f.out.val ELSE tok
        p    == post(tok1, auth_login_url, LoginData(username, password), NoHeaders, res2)
        x    == extract_csrf_token(res2)
        sent == (IF NeedsFetch(tok) THEN f.calls ELSE <<>>) \o p.calls
        tr   == (IF NeedsFetch(tok) THEN f.trace ELSE <<>>) \o p.trace
    IN  IF p.out.kind = "raised"
        THEN [calls |-> sent, trace |-> tr, out |-> p.out, token |-> tok1]
        ELSE IF x.kind = "raised"
        THEN [calls |-> sent, trace |-> tr, out |-> x, token |-> tok1]
        ELSE [calls |-> sent, trace |-> tr, out |-> p.out,
              token |-> LoginToken(tok1, x.val)]

logout(tok, res) ==
    get(tok, auth_logout_url, NoHeaders, None, FALSE, res)

(***************************************************************************)
(* The request models of models/test_case.py (pydantic validation).        *)
(***************************************************************************)
NameMaxLength == 100

DescriptionMaxLength == 1000

\* variant: the maximum length is exclusive
LengthBelow(v, n) == 1 <= Len(v.str) /\ Len(v.str) < n

\* Field(..., min_length=1, max_length=n) of a str
LengthOk(v, n) == 1 <= Len(v.str) /\ Len(v.str) <= n

\* CreateTestRequest(name=..., description=...) validates
CreateTestRequestOk(name, description) ==
    LengthOk(name, NameMaxLength) /\ LengthOk(description, DescriptionMaxLength)

\* variant: an UpdateTestRequest without constraints on its fields
UpdateTestRequestAny(name, description) == TRUE

\* UpdateTestRequest(name=..., description=...) validates: None is the default
UpdateTestRequestOk(name, description) ==
    /\ IsNone(name) \/ LengthOk(name, NameMaxLength)
    /\ IsNone(description) \/ LengthOk(description, DescriptionMaxLength)

\* model_dump() of CreateTestRequest and of UpdateTestRequest
NameDescription(name, description) == [name |-> name, description |-> description]

\* variant: a status outside the TestStatus enumeration is rejected
TestStatusRequestEnum(status) ==
    status \in {Str(<<"P","A","S","S">>), Str(<<"F","A","I","L">>), Str(<<"N","o","r","u","n">>)}

\* TestStatusRequest(status=...) validates: `status: str | TestStatus`
TestStatusRequestOk(status) == "str" \in DOMAIN status

\* variant: the None fields are kept
KeepNone(d) == d

\* {key: value for key, value in d.items() if value is not None}
DropNone(d) == [k \in {f \in DOMAIN d : ~IsNone(d[f])} |-> d[k]]

(***************************************************************************)
(* TestCasesClient and StatsClient.                                        *)
(***************************************************************************)
Sent(r) == r

NotSent(e) == [calls |-> <<>>, trace |-> <<>>, out |-> Raised(e)]

\* variant: `if page:` and `if size:`, which drop the value 0
ListParamsTruthy(page, size) ==
    LET d == [page |-> page, size |-> size]
        params == [k \in {f \in DOMAIN d : ~IsNone(d[f]) /\ d[f] # PyInt(0)} |-> d[k]]
    IN  IF DOMAIN params # {} THEN params ELSE None

\* the params dict of get_test_list, None when it is empty
ListParams(page, size) ==
    LET params == DropNone([page |-> page, size |-> size])
    IN  IF DOMAIN params # {} THEN params ELSE None

get_test_list(tok, page, size, res) ==
    Sent(get(tok, tests_url, NoHeaders, ListParams(page, size), FALSE, res))

create_test(tok, name, description, res) ==
    IF CreateTestRequestOk(name, description)
    THEN Sent(post(tok, tests_new_url, NameDescription(name, description), NoHeaders, res))
    ELSE NotSent("ValidationError")

get_test_by_id(tok, test_id, res) ==
    Sent(get(tok, get_test_url(PyStr(test_id)), NoHeaders, None, FALSE, res))

update_test(tok, test_id, name, description, res) ==
    IF UpdateTestRequestOk(name, description)
    THEN Sent(put(tok, get_test_url(PyStr(test_id)),
                  NameDescription(name, description), NoHeaders, res))
    ELSE NotSent("ValidationError")

partial_update_test(tok, test_id, name, description, res) ==
    IF UpdateTestRequestOk(name, description)
    THEN Sent(patch(tok, get_test_url(PyStr(test_id)),
                    DropNone(NameDescription(name, description)), NoHeaders, res))
    ELSE NotSent("ValidationError")

set_test_status(tok, test_id, status, res) ==
    IF TestStatusRequestOk(status)
    THEN Sent(post(tok, get_test_status_url(PyStr(test_id)), [status |-> status],
                   NoHeaders, res))
    ELSE NotSent("ValidationError")

delete_test(tok, test_id, res) ==
    Sent(delete(tok, get_test_url(PyStr(test_id)), NoHeaders, res))

get_statistics(tok, res) ==
    Sent(get(tok, stats_url, NoHeaders, None, FALSE, res))

(***************************************************************************)
(* The response models (pydantic, lax mode) and the static parse functions.*)
(* A JSON value is None, a Str, a PyInt, an array or an object.            *)
(***************************************************************************)
JArr(items) == [arr |-> items]

JObj(d) == [obj |-> d]

IsObj(v) == "obj" \in DOMAIN v

DigitValue(ch) == CHOOSE d \in 0..9 : DigitChar[d + 1] = ch

RECURSIVE StrToNat(_)
\* int(s) of a str of digits
StrToNat(s) ==
    IF s = <<>> THEN 0
    ELSE 10 * StrToNat(SubSeq(s, 1, Len(s) - 1)) + DigitValue(s[Len(s)])

IsNumeric(v) ==
    /\ "str" \in DOMAIN v
    /\ v.str # <<>>
    /\ \A i \in 1..Len(v.str) : v.str[i] \in Digits

\* an `int` field takes an int, and in lax mode a str of digits as well
IntOk(v) == "int" \in DOMAIN v \/ IsNumeric(v)

IntValue(v) == IF "int" \in DOMAIN v THEN v ELSE PyInt(StrToNat(v.str))

\* the declarations of a field: its type, Field(...) or Field(None), max_length
IntField == [type |-> "int", required |-> TRUE, bounded |-> FALSE, max |-> 0]

StrField == [type |-> "str", required |-> TRUE, bounded |-> FALSE, max |-> 0]

StrFieldMax(n) == [type |-> "str", required |-> TRUE, bounded |-> TRUE, max |-> n]

\* `str | None = Field(None)` and `str | TestStatus | None = Field(None)`
OptionalStrField == [type |-> "str", required |-> FALSE, bounded |-> FALSE, max |-> 0]

CreateTestResponse == [test_id |-> IntField]

SetTestStatusResponse == [runId |-> IntField]

Statistics ==
    [total |-> IntField, passed |-> IntField, failed |-> IntField, norun |-> IntField]

TestCase ==
    [id |-> IntField, name |-> StrFieldMax(NameMaxLength),
     description |-> StrFieldMax(DescriptionMaxLength), author |-> StrField,
     executor |-> OptionalStrField, status |-> OptionalStrField]

\* variant: a status outside the TestStatus enumeration is rejected
FieldOkStatusEnum(decl, d, f) ==
    IF f \notin DOMAIN d THEN ~decl.required
    ELSE IF IsNone(d[f]) THEN ~decl.required
    ELSE IF decl.type = "int" THEN IntOk(d[f])
    ELSE /\ "str" \in DOMAIN d[f]
         /\ decl.bounded => Len(d[f].str) <= decl.max
         /\ f = "status" => TestStatusRequestEnum(d[f])

\* pydantic accepts what the keyword arguments give for field f
FieldOk(decl, d, f) ==
    IF f \notin DOMAIN d THEN ~decl.required
    ELSE IF IsNone(d[f]) THEN ~decl.required
    ELSE IF decl.type = "int" THEN IntOk(d[f])
    ELSE /\ "str" \in DOMAIN d[f]
         /\ decl.bounded => Len(d[f].str) <= decl.max

\* the value of field f in the validated record
FieldValue(decl, d, f) ==
    IF f \notin DOMAIN d THEN None
    ELSE IF IsNone(d[f]) THEN None
    ELSE IF decl.type = "int" THEN IntValue(d[f])
    ELSE d[f]

\* Model(**data): TypeError when data is no mapping, ValidationError when a
\* field is rejected; extra keys are ignored
Build(model, data) ==
    IF ~IsObj(data) THEN [err |-> "TypeError"]
    ELSE IF \E f \in DOMAIN model : ~FieldOk(model[f], data.obj, f)
    THEN [err |-> "ValidationError"]
    ELSE [rec |-> [f \in DOMAIN model |-> FieldValue(model[f], data.obj, f)]]

\* the errors `except (ValueError, KeyError, TypeError)` catches:
\* json.JSONDecodeError and pydantic's ValidationError are ValueErrors
CaughtByParse == {"ValueError", "KeyError", "TypeError", "JSONDecodeError", "ValidationError"}

\* `raise ValueError(...) from e`
RaisedFrom(e) == [kind |-> "raised", exc |-> "ValueError", cause |-> e]

\* an error inside the try block of a parse function
ParseError(e) == IF e \in CaughtByParse THEN RaisedFrom(e) ELSE Raised(e)

\* a parse function of one record, j what response.json() gives
ParseRecord(model, j) ==
    IF "raises" \in DOMAIN j THEN ParseError(j.raises)
    ELSE LET b == Build(model, j.value)
         IN  IF "err" \in DOMAIN b THEN ParseError(b.err) ELSE Value(b.rec)

parse_create_response(j) == ParseRecord(CreateTestResponse, j)

parse_test_case(j) == ParseRecord(TestCase, j)

parse_update_response(j) == ParseRecord(TestCase, j)

parse_set_status_response(j) == ParseRecord(SetTestStatusResponse, j)

parse_statistics(j) == ParseRecord(Statistics, j)

\* variant: the items that cannot be mapped are left out of the list
TestCaseListSkipping(items) ==
    LET Maps(item) == "rec" \in DOMAIN Build(TestCase, item)
        kept == SelectSeq(items, Maps)
    IN  Value([i \in DOMAIN kept |-> Build(TestCase, kept[i]).rec])

\* [TestCase(**item) for item in items]: the first error ends the comprehension
TestCaseList(items) ==
    LET bad == {i \in DOMAIN items : "err" \in DOMAIN Build(TestCase, items[i])}
    IN  IF bad = {}
        THEN Value([i \in DOMAIN items |-> Build(TestCase, items[i]).rec])
        ELSE ParseError(Build(TestCase, items[CHOOSE i \in bad : \A k \in bad : i <= k]).err)

\* the comprehension over data["tests"]: an array gives its items, a str its
\* characters and a dict its keys (none of them a mapping), None and an int
\* cannot be iterated
ListOfTests(tests) ==
    IF "arr" \in DOMAIN tests THEN TestCaseList(tests.arr)
    ELSE IF "str" \in DOMAIN tests /\ tests.str = <<>> THEN Value(<<>>)
    ELSE IF "obj" \in DOMAIN tests /\ DOMAIN tests.obj = {} THEN Value(<<>>)
    ELSE ParseError("TypeError")

parse_test_list(j) ==
    IF "raises" \in DOMAIN j THEN ParseError(j.raises)
    ELSE IF IsObj(j.value) /\ "tests" \in DOMAIN j.value.obj
    THEN ListOfTests(j.value.obj.tests)
    ELSE Value(<<>>)

(***************************************************************************)
(* data/factories.py: the generator of test names.                        *)
(***************************************************************************)
\* the clock counts fractions of a millisecond: TicksPerMs of them make one
TicksPerMs == 2

\* the clock is followed up to MaxClock ticks
MaxClock == 4

\* the names handed out to tests other than through the fixture
MaxNames == 1

DefaultPrefix == <<"A","P","I"," ","T","e","s","t">>

\* timestamp = int(time.time() * 1000); f"{prefix} {timestamp}"
generate_test_name(prefix, now) ==
    Str(prefix \o <<" ">> \o NatDigits(now \div TicksPerMs))

\* f"{action} - {fake.sentence()}", sentence what Faker gives
generate_test_description(action, sentence) == Str(action \o <<" ","-"," ">> \o sentence)

generate_random_test_data(now, sentence) ==
    [name |-> generate_test_name(DefaultPrefix, now),
     description |-> generate_test_description(<<"T","e","s","t","i","n","g"," ","A","P","I">>,
                                               sentence)]

(***************************************************************************)
(* tests/conftest.py: the request context the clients are built on.       *)
(***************************************************************************)
\* variant: every client fixture builds a request context of its own
OwnRequestContext(c) == c

\* auth_client, test_cases_client and stats_client all take the one
\* session-scoped api_request_context
RequestContextOf(c) == "api_request_context"

(***************************************************************************)
(* State: each client's class and _csrf_token, and the last call observed. *)
(***************************************************************************)
Idle == [op |-> "idle", client |-> "none", pre |-> None, args |-> <<>>,
         calls |-> <<>>, trace |-> <<>>, out |-> [kind |-> "none"]]

Done(op, c, args, r) ==
    [op |-> op, client |-> c, pre |-> token[c], args |-> args,
     calls |-> r.calls, trace |-> r.trace, out |-> r.out]

\* the result of an operation that sends nothing
Local(out) == [calls |-> <<>>, trace |-> <<>>, out |-> out]

\* the fixtures of conftest.py: one AuthClient, one TestCasesClient or StatsClient
ClassesOf(c) == IF c = "auth" THEN {"AuthClient"} ELSE {"TestCasesClient", "StatsClient"}

Init ==
    /\ token = [c \in Clients |-> None]
    /\ class = [c \in Clients |-> IF c = "auth" THEN "AuthClient" ELSE "TestCasesClient"]
    /\ last = Idle
    /\ jar = [x \in {RequestContextOf(c) : c \in Clients} |-> {}]
    /\ pc = "start"
    /\ requests = <<>>
    /\ created = None
    /\ verdict = "none"
    /\ escaped = <<>>
    /\ clock = 0
    /\ names = <<>>

\* BaseClient.__init__: a fresh client holds no token
Construct(c) ==
    /\ last = Idle
    /\ \E k \in ClassesOf(c) :
        /\ token' = [token EXCEPT ![c] = None]
        /\ class' = [class EXCEPT ![c] = k]
        /\ last' = Done("construct", c, <<k>>, Local([kind |-> "none"]))
    /\ UNCHANGED suiteVars

AssignValues == {None, Str(<<>>), Str(<<"x","y">>)}

\* the csrf_token setter, called by the client's user
SetCsrfToken(c) ==
    /\ last = Idle
    /\ \E v \in AssignValues :
        /\ token' = [token EXCEPT ![c] = v]
        /\ last' = Done("set_csrf_token", c, <<v>>, Local([kind |-> "none"]))
    /\ UNCHANGED <<class, suiteVars>>

\* test_cases_client.csrf_token = authenticated_client.csrf_token
CopyToken(c, d) ==
    /\ last = Idle
    /\ c # d
    /\ token' = [token EXCEPT ![c] = token[d]]
    /\ last' = Done("set_csrf_token", c, <<token[d]>>, Local([kind |-> "none"]))
    /\ UNCHANGED <<class, suiteVars>>

\* variant: get_csrf_token stores the token it fetched
GetCsrfTokenStores(c) ==
    /\ last = Idle
    /\ \E res \in Outcomes :
        LET r == get_csrf_token(token[c], res)
        IN  /\ last' = Done("get_csrf_token", c, <<>>, r)
            /\ token' = [token EXCEPT ![c] = r.out.val]
    /\ UNCHANGED <<class, suiteVars>>

GetCsrfToken(c) ==
    /\ last = Idle
    /\ \E res \in Outcomes :
        LET r == get_csrf_token(token[c], res)
        IN  last' = Done("get_csrf_token", c, <<>>, r)
    /\ UNCHANGED <<token, class, suiteVars>>

ExtractCsrfToken(c) ==
    /\ last = Idle
    /\ \E resp \in Responses :
        last' = Done("extract_csrf_token", c, <<resp>>, Local(extract_csrf_token(resp)))
    /\ UNCHANGED <<token, class, suiteVars>>

\* the headers arguments a caller passes: none, the empty dict, a dict of its own
HeaderArgs == {NoHeaders, Headers(<<>>), Headers([h \in {"Accept"} |-> "text/plain"])}

\* test_login_missing_username posts this body to the login endpoint
BodyArg == [password |-> Str(<<"p", "w">>)]

\* the bodies and params a caller passes: one json.dumps serialises, one it cannot
BodyArgs == {BodyArg, [blob |-> Unserializable]}

ParamsArgs == {None, [since |-> Unserializable]}

Get(c) ==
    /\ last = Idle
    /\ \E headers \in HeaderArgs, params \in ParamsArgs, res \in Outcomes :
        LET r == get(token[c], tests_url, headers, params, FALSE, res)
        IN  last' = Done("get", c, <<headers, params>>, r)
    /\ UNCHANGED <<token, class, suiteVars>>

Post(c) ==
    /\ last = Idle
    /\ \E headers \in HeaderArgs, data \in BodyArgs, res \in Outcomes :
        LET r == post(token[c], auth_login_url, data, headers, res)
        IN  last' = Done("post", c, <<headers, data>>, r)
    /\ UNCHANGED <<token, class, suiteVars>>

Put(c) ==
    /\ last = Idle
    /\ \E headers \in HeaderArgs, data \in BodyArgs, res \in Outcomes :
        LET r == put(token[c], tests_url, data, headers, res)
        IN  last' = Done("put", c, <<headers, data>>, r)
    /\ UNCHANGED <<token, class, suiteVars>>

Patch(c) ==
    /\ last = Idle
    /\ \E headers \in HeaderArgs, data \in BodyArgs, res \in Outcomes :
        LET r == patch(token[c], tests_url, data, headers, res)
        IN  last' = Done("patch", c, <<headers, data>>, r)
    /\ UNCHANGED <<token, class, suiteVars>>

Delete(c) ==
    /\ last = Idle
    /\ \E headers \in HeaderArgs, res \in Outcomes :
        LET r == delete(token[c], tests_url, headers, res)
        IN  last' = Done("delete", c, <<headers>>, r)
    /\ UNCHANGED <<token, class, suiteVars>>

Credentials == {<<Str(<<"u">>), Str(<<"s">>)>>, <<Str(<<>>), Str(<<>>)>>}

AnOutcome == CHOOSE o \in Outcomes : TRUE

\* variant: the token is an attribute of the class, shared by every client
LoginSharedToken(c) ==
    /\ last = Idle
    /\ class[c] = "AuthClient"
    /\ \E cred \in Credentials, res2 \in Outcomes :
       \E res1 \in (IF NeedsFetch(token[c]) THEN Outcomes ELSE {AnOutcome}) :
        LET r == login(token[c], cred[1], cred[2], res1, res2)
        IN  /\ token' = [d \in Clients |-> r.token]
            /\ last' = Done("login", c, cred, r)
    /\ UNCHANGED <<class, suiteVars>>

Login(c) ==
    /\ last = Idle
    /\ class[c] = "AuthClient"
    /\ \E cred \in Credentials, res2 \in Outcomes :
       \E res1 \in (IF NeedsFetch(token[c]) THEN Outcomes ELSE {AnOutcome}) :
        LET r == login(token[c], cred[1], cred[2], res1, res2)
        IN  /\ token' = [token EXCEPT ![c] = r.token]
            /\ last' = Done("login", c, cred, r)
    /\ UNCHANGED <<class, suiteVars>>

Logout(c) ==
    /\ last = Idle
    /\ class[c] = "AuthClient"
    /\ \E res \in Outcomes :
        LET r == logout(token[c], res)
        IN  last' = Done("logout", c, <<>>, r)
    /\ UNCHANGED <<token, class, suiteVars>>

PageArgs == {None, PyInt(0)}

SizeArgs == {None, PyInt(0), PyInt(5)}

TestIds == {PyInt(42), Str(<<"a","b","c">>)}

NameArgs == {Str(Rep("n", k)) : k \in {0, 1, NameMaxLength, NameMaxLength + 1}}

DescriptionArgs ==
    {Str(Rep("d", k)) : k \in {0, 1, DescriptionMaxLength, DescriptionMaxLength + 1}}

StatusArgs == {Str(<<"P","A","S","S">>), Str(<<"N","o","r","u","n">>), Str(<<"x">>)}

GetTestList(c) ==
    /\ last = Idle
    /\ class[c] = "TestCasesClient"
    /\ \E page \in PageArgs, size \in SizeArgs, res \in Outcomes :
        LET r == get_test_list(token[c], page, size, res)
        IN  last' = Done("get_test_list", c, <<page, size>>, r)
    /\ UNCHANGED <<token, class, suiteVars>>

CreateTest(c) ==
    /\ last = Idle
    /\ class[c] = "TestCasesClient"
    /\ \E name \in NameArgs, description \in DescriptionArgs, res \in Outcomes :
        LET r == create_test(token[c], name, description, res)
        IN  last' = Done("create_test", c, <<name, description>>, r)
    /\ UNCHANGED <<token, class, suiteVars>>

GetTestById(c) ==
    /\ last = Idle
    /\ class[c] = "TestCasesClient"
    /\ \E test_id \in TestIds, res \in Outcomes :
        LET r == get_test_by_id(token[c], test_id, res)
        IN  last' = Done("get_test_by_id", c, <<test_id>>, r)
    /\ UNCHANGED <<token, class, suiteVars>>

UpdateTest(c) ==
    /\ last = Idle
    /\ class[c] = "TestCasesClient"
    /\ \E test_id \in TestIds, name \in NameArgs, description \in DescriptionArgs,
          res \in Outcomes :
        LET r == update_test(token[c], test_id, name, description, res)
        IN  last' = Done("update_test", c, <<test_id, name, description>>, r)
    /\ UNCHANGED <<token, class, suiteVars>>

PartialUpdateTest(c) ==
    /\ last = Idle
    /\ class[c] = "TestCasesClient"
    /\ \E test_id \in TestIds, name \in NameArgs \cup {None},
          description \in DescriptionArgs \cup {None}, res \in Outcomes :
        LET r == partial_update_test(token[c], test_id, name, description, res)
        IN  last' = Done("partial_update_test", c, <<test_id, name, description>>, r)
    /\ UNCHANGED <<token, class, suiteVars>>

SetTestStatus(c) ==
    /\ last = Idle
    /\ class[c] = "TestCasesClient"
    /\ \E test_id \in TestIds, status \in StatusArgs, res \in Outcomes :
        LET r == set_test_status(token[c], test_id, status, res)
        IN  last' = Done("set_test_status", c, <<test_id, status>>, r)
    /\ UNCHANGED <<token, class, suiteVars>>

DeleteTest(c) ==
    /\ last = Idle
    /\ class[c] = "TestCasesClient"
    /\ \E test_id \in TestIds, res \in Outcomes :
        LET r == delete_test(token[c], test_id, res)
        IN  last' = Done("delete_test", c, <<test_id>>, r)
    /\ UNCHANGED <<token, class, suiteVars>>

GetStatistics(c) ==
    /\ last = Idle
    /\ class[c] = "StatsClient"
    /\ \E res \in Outcomes :
        LET r == get_statistics(token[c], res)
        IN  last' = Done("get_statistics", c, <<>>, r)
    /\ UNCHANGED <<token, class, suiteVars>>

\* the caller has the result of the call and goes on
\* what response.json() gives: a value, or an error (a body that is no JSON,
\* a body that cannot be read)
Json(v) == [value |-> v]

JsonFailures == {[raises |-> "JSONDecodeError"], [raises |-> "PlaywrightError"]}

\* bodies that are JSON but no object
NonObjects == {None, JArr(<<>>), Str(<<"o", "k">>)}

\* an int, a str of digits, another str, null
IntValues == {PyInt(7), Str(<<"7">>), Str(<<"x">>), None}

CreateBodies ==
    {JObj([test_id |-> v]) : v \in IntValues}
        \cup {JObj(<<>>), JObj([test_id |-> PyInt(7), name |-> Str(<<"n">>)])}

SetStatusBodies == {JObj([runId |-> v]) : v \in IntValues} \cup {JObj(<<>>)}

StatisticsBodies ==
    {JObj([total |-> t, passed |-> PyInt(1), failed |-> PyInt(0), norun |-> n]) :
        t \in IntValues, n \in {PyInt(2), PyInt(-1)}}
        \cup {JObj([total |-> PyInt(3), passed |-> PyInt(1), failed |-> PyInt(0)])}

\* an item as GET returns it, as PUT and PATCH return it, one without its
\* author, one that is no object
ItemFull ==
    JObj([id |-> PyInt(7), name |-> Str(<<"n">>), description |-> Str(<<"d">>),
          author |-> Str(<<"a">>), executor |-> None, status |-> Str(<<"P","A","S","S">>)])

ItemPlain ==
    JObj([id |-> PyInt(8), name |-> Str(<<"m">>), description |-> Str(<<"d">>),
          author |-> Str(<<"a">>)])

ItemNoAuthor ==
    JObj([id |-> PyInt(9), name |-> Str(<<"n">>), description |-> Str(<<"d">>)])

ItemNotObject == Str(<<"n">>)

TestItems == {ItemFull, ItemPlain, ItemNoAuthor, ItemNotObject}

WithField(item, f, v) == JObj([k \in DOMAIN item.obj \cup {f} |-> IF k = f THEN v ELSE item.obj[k]])

TestCaseBodies ==
    TestItems
        \cup {WithField(ItemPlain, "id", v) : v \in IntValues}
        \cup {WithField(ItemPlain, "name", Str(Rep("n", k))) :
                  k \in {0, NameMaxLength, NameMaxLength + 1}}
        \cup {WithField(ItemFull, "status", v) : v \in {None, Str(<<"x">>), PyInt(1)}}
        \cup {WithField(ItemFull, "executor", Str(<<"u">>))}

TestListBodies ==
    {JObj([tests |-> JArr(items)]) : items \in SeqsUpTo(TestItems, MaxListLen)}
        \cup {JObj([tests |-> v]) : v \in {None, Str(<<>>)}}
        \cup {JObj([page |-> PyInt(0), size |-> PyInt(20), total |-> PyInt(0)])}

\* a static parse function applied to what response.json() gives
Parsed(op, j, out) ==
    [op |-> op, client |-> "none", pre |-> None, args |-> <<j>>,
     calls |-> <<>>, trace |-> <<>>, out |-> out]

JsonOutcomes(bodies) == JsonFailures \cup {Json(v) : v \in NonObjects \cup bodies}

ParseCreateResponse ==
    /\ last = Idle
    /\ \E j \in JsonOutcomes(CreateBodies) :
        last' = Parsed("parse_create_response", j, parse_create_response(j))
    /\ UNCHANGED <<token, class, suiteVars>>

ParseTestCase ==
    /\ last = Idle
    /\ \E j \in JsonOutcomes(TestCaseBodies) :
        last' = Parsed("parse_test_case", j, parse_test_case(j))
    /\ UNCHANGED <<token, class, suiteVars>>

ParseUpdateResponse ==
    /\ last = Idle
    /\ \E j \in JsonOutcomes(TestCaseBodies) :
        last' = Parsed("parse_update_response", j, parse_update_response(j))
    /\ UNCHANGED <<token, class, suiteVars>>

ParseSetStatusResponse ==
    /\ last = Idle
    /\ \E j \in JsonOutcomes(SetStatusBodies) :
        last' = Parsed("parse_set_status_response", j, parse_set_status_response(j))
    /\ UNCHANGED <<token, class, suiteVars>>

ParseStatistics ==
    /\ last = Idle
    /\ \E j \in JsonOutcomes(StatisticsBodies) :
        last' = Parsed("parse_statistics", j, parse_statistics(j))
    /\ UNCHANGED <<token, class, suiteVars>>

ParseTestList ==
    /\ last = Idle
    /\ \E j \in JsonOutcomes(TestListBodies) :
        last' = Parsed("parse_test_list", j, parse_test_list(j))
    /\ UNCHANGED <<token, class, suiteVars>>

Continue ==
    /\ last # Idle
    /\ last' = Idle
    /\ UNCHANGED <<token, class, suiteVars>>

Next ==
    \/ \E c \in Clients : Construct(c)
    \/ \E c \in Clients : SetCsrfToken(c)
    \/ \E c, d \in Clients : CopyToken(c, d)
    \/ \E c \in Clients : GetCsrfToken(c)
    \/ \E c \in Clients : ExtractCsrfToken(c)
    \/ \E c \in Clients : Get(c)
    \/ \E c \in Clients : Post(c)
    \/ \E c \in Clients : Put(c)
    \/ \E c \in Clients : Patch(c)
    \/ \E c \in Clients : Delete(c)
    \/ \E c \in Clients : Login(c)
    \/ \E c \in Clients : Logout(c)
    \/ \E c \in Clients : GetTestList(c)
    \/ \E c \in Clients : CreateTest(c)
    \/ \E c \in Clients : GetTestById(c)
    \/ \E c \in Clients : UpdateTest(c)
    \/ \E c \in Clients : PartialUpdateTest(c)
    \/ \E c \in Clients : SetTestStatus(c)
    \/ \E c \in Clients : DeleteTest(c)
    \/ \E c \in Clients : GetStatistics(c)
    \/ ParseCreateResponse
    \/ ParseTestCase
    \/ ParseUpdateResponse
    \/ ParseSetStatusResponse
    \/ ParseStatistics
    \/ ParseTestList
    \/ Continue

Spec == Init /\ [][Next]_vars

(***************************************************************************)
(* The run of a test that uses the created_test_id fixture: the setup of   *)
(* authenticated_client, authenticated_test_client and created_test_id,    *)
(* the test body, and the teardowns in the reverse order.                  *)
(***************************************************************************)
\* the answers of the transport followed through a test run
SuiteOutcomes ==
    {Response(st, Str(<<>>), [dict |-> PlainHeaders]) : st \in {200, 201}}
        \cup {Response(200, Str(<<"a">>), [dict |-> PlainHeaders]),
              Response(200, Str(<<>>), [dict |-> WithSetCookie(Str(CookieMiddle))]),
              [kind |-> "failure", exc |-> "TimeoutError"]}

\* the request context keeps the cookies its responses set
StoreCookies(cookies, res) ==
    IF /\ res.kind = "response"
       /\ "dict" \in DOMAIN res.headers
       /\ "set-cookie" \in DOMAIN res.headers.dict
       /\ "str" \in DOMAIN res.headers.dict["set-cookie"]
       /\ res.headers.dict["set-cookie"].str # <<>>
    THEN cookies \cup {res.headers.dict["set-cookie"]}
    ELSE cookies

RECURSIVE Through(_, _, _)
\* the calls of client c go through its request context one after the other:
\* each carries the cookies stored so far
Through(c, calls, cookies) ==
    IF calls = <<>> THEN [requests |-> <<>>, cookies |-> cookies]
    ELSE LET rest == Through(c, Tail(calls), StoreCookies(cookies, calls[1].res))
         IN  [requests |-> <<[client |-> c, verb |-> calls[1].verb, url |-> calls[1].url,
                              cookies |-> cookies,
                              answered |-> calls[1].res.kind = "response"]>> \o rest.requests,
              cookies |-> rest.cookies]

\* client c ran an operation with result r
Ran(c, r) ==
    LET t == Through(c, r.calls, jar[RequestContextOf(c)])
    IN  /\ requests' = requests \o t.requests
        /\ jar' = [jar EXCEPT ![RequestContextOf(c)] = t.cookies]

\* authenticated_client, up to its yield
SetupLogin ==
    /\ pc = "start"
    /\ \E res1, res2 \in SuiteOutcomes :
        LET r == login(token["auth"], Str(<<"u">>), Str(<<"s">>), res1, res2)
        IN  /\ token' = [token EXCEPT !["auth"] = r.token]
            /\ Ran("auth", r)
            /\ IF r.out.kind = "raised"
               THEN escaped' = Append(escaped, r.out.exc) /\ pc' = "done"
               ELSE escaped' = escaped /\ pc' = "logged_in"
    /\ UNCHANGED <<class, last, created, verdict, clock, names>>

\* authenticated_test_client
SetupCopyToken ==
    /\ pc = "logged_in"
    /\ token' = [token EXCEPT !["api"] = token["auth"]]
    /\ pc' = "copied"
    /\ UNCHANGED <<class, last, jar, requests, created, verdict, escaped, clock, names>>

\* created_test_id, up to its yield
SetupCreate ==
    /\ pc = "copied"
    /\ \E res \in SuiteOutcomes,
          j \in {Json(JObj([test_id |-> PyInt(7)])), Json(JObj(<<>>)),
                 [raises |-> "JSONDecodeError"]} :
        LET test_data == generate_random_test_data(clock, <<"s">>)
            r == create_test(token["api"], test_data.name, test_data.description, res)
            p == parse_create_response(j)
            err == IF r.out.kind = "raised" THEN r.out.exc
                   ELSE IF res.status # 201 THEN "ValueError"
                   ELSE IF p.kind = "raised" THEN p.exc
                   ELSE "none"
        IN  /\ names' = Append(names, [worker |-> "gw0", name |-> test_data.name])
            /\ Ran("api", r)
            /\ IF err # "none"
               THEN /\ escaped' = Append(escaped, err)
                    /\ pc' = "teardown_logout"
                    /\ UNCHANGED created
               ELSE /\ created' = p.val.test_id
                    /\ pc' = "body"
                    /\ UNCHANGED escaped
    /\ UNCHANGED <<token, class, last, verdict, clock>>

\* the body of the test: it reads the created test and passes or fails
TestBody ==
    /\ pc = "body"
    /\ \E res \in SuiteOutcomes, v \in {"passed", "failed"} :
        LET r == get_test_by_id(token["api"], created, res)
        IN  /\ Ran("api", r)
            /\ verdict' = IF r.out.kind = "raised" THEN "failed" ELSE v
    /\ pc' = "teardown_delete"
    /\ UNCHANGED <<token, class, last, created, escaped, clock, names>>

\* variant: the cleanup is skipped after a failed test
TeardownDeleteIfPassed ==
    /\ pc = "teardown_delete"
    /\ \E res \in SuiteOutcomes :
        LET r == delete_test(token["api"], created, res)
        IN  IF verdict = "passed" THEN Ran("api", r) ELSE UNCHANGED <<jar, requests>>
    /\ pc' = "teardown_logout"
    /\ UNCHANGED <<token, class, last, created, verdict, escaped, clock, names>>

\* created_test_id after its yield: the delete, its errors swallowed
TeardownDelete ==
    /\ pc = "teardown_delete"
    /\ \E res \in SuiteOutcomes :
        LET r == delete_test(token["api"], created, res)
        IN  Ran("api", r)
    /\ pc' = "teardown_logout"
    /\ UNCHANGED <<token, class, last, created, verdict, escaped, clock, names>>

\* authenticated_client after its yield: the logout, its errors swallowed
TeardownLogout ==
    /\ pc = "teardown_logout"
    /\ \E res \in SuiteOutcomes :
        LET r == logout(token["auth"], res)
        IN  Ran("auth", r)
    /\ pc' = "done"
    /\ UNCHANGED <<token, class, last, created, verdict, escaped, clock, names>>

\* the next test: the function-scoped clients are built anew, the
\* session-scoped request context stays
NextTest ==
    /\ pc = "done"
    /\ pc' = "start"
    /\ token' = [c \in Clients |-> None]
    /\ requests' = <<>>
    /\ created' = None
    /\ verdict' = "none"
    /\ escaped' = <<>>
    /\ names' = <<>>
    /\ UNCHANGED <<class, last, jar, clock>>

\* time passes
Tick ==
    /\ clock < MaxClock
    /\ clock' = clock + 1
    /\ UNCHANGED <<token, class, last, jar, pc, requests, created, verdict, escaped, names>>

\* a test of worker w calls TestDataFactory.generate_test_name()
GenerateTestName(w) ==
    /\ Len(names) <= MaxNames
    /\ names' = Append(names, [worker |-> w, name |-> generate_test_name(DefaultPrefix, clock)])
    /\ UNCHANGED <<token, class, last, jar, pc, requests, created, verdict, escaped, clock>>

SuiteNext ==
    \/ SetupLogin
    \/ SetupCopyToken
    \/ SetupCreate
    \/ TestBody
    \/ TeardownDelete
    \/ TeardownLogout
    \/ NextTest
    \/ Tick
    \/ \E w \in {"gw0", "gw1"} : GenerateTestName(w)

SpecSuite == Init /\ [][SuiteNext]_vars

(***************************************************************************)
(* Properties.                                                             *)
(***************************************************************************)
\* a client holds a token: what the code tests with `if self._csrf_token`
Present(v) == Truthy(v)

\* the methods of the clients that send a request
Verbs == {"get", "post", "put", "patch", "delete"}

DomainMethods ==
    {"login", "logout", "get_test_list", "create_test", "get_test_by_id", "update_test",
     "partial_update_test", "set_test_status", "delete_test", "get_statistics"}

\* what get_csrf_token makes of the transport's answer `res` to its GET
FetchedFrom(res) ==
    TokenFromFetch(IF res.kind = "failure" THEN Raised(res.exc) ELSE Returned(res))

\* the token the client of the last call held when it sent its i-th request
HeldAtCall(i) ==
    IF last.op = "login" /\ i = 2 THEN FetchedFrom(last.calls[1].res) ELSE last.pre

\* C1 (as stated): once a client's csrf_token is present, no step other than
\* constructing the client anew makes it absent, caller assignments included.
C1_PresentStaysPresent ==
    [][\A c \in Clients :
        (Present(token[c]) /\ ~Present(token'[c]))
            => (last'.client = c /\ last'.op = "construct")]_vars

\* C1 (amended): a present csrf_token becomes absent only when the client is
\* constructed anew or its caller assigns an absent value (None or ""); login,
\* logout, get_csrf_token, extract_csrf_token and the five verbs keep it present.
C1_PresentUntilAssignedAbsent ==
    [][\A c \in Clients :
        (Present(token[c]) /\ ~Present(token'[c]))
            => /\ last'.client = c
               /\ \/ last'.op = "construct"
                  \/ last'.op = "set_csrf_token" /\ ~Present(last'.args[1])]_vars

\* C1 witness: a login on a client that held a token replaced it by another one.
C1_Witness ==
    /\ last.op = "login"
    /\ Present(last.pre)
    /\ Present(token[last.client])
    /\ token[last.client] # last.pre

\* C2 (as stated): get_csrf_token called on a client without a token, returning
\* a token, leaves the client holding that token.
C2_FetchStoresToken ==
    (last.op = "get_csrf_token" /\ ~Present(last.pre) /\ Present(last.out.val))
        => token[last.client] = last.out.val

\* C2 (amended): get_csrf_token returns the fetched token and leaves the held
\* token as it was; it is login that stores the value its fetch returned, and
\* sends it on the POST that follows.
C2_FetchReturnsLoginStores ==
    /\ last.op = "get_csrf_token" => token[last.client] = last.pre
    /\ (last.op = "login" /\ ~Present(last.pre))
        => LET fetched == FetchedFrom(last.calls[1].res)
               sent    == last.calls[2].headers
           IN  /\ Present(fetched) <=> "X-CSRFToken" \in DOMAIN sent
               /\ Present(fetched) => sent["X-CSRFToken"] = fetched
               /\ last.out.kind = "raised" => token[last.client] = fetched

\* C2 witness: an explicit fetch on a client without a token returned a token.
C2_Witness ==
    /\ last.op = "get_csrf_token"
    /\ ~Present(last.pre)
    /\ Present(last.out.val)

\* the csrftoken value of a response's Set-Cookie header, None when there is none
CookieToken(resp) ==
    IF "raises" \in DOMAIN resp.headers THEN None
    ELSE IF "set-cookie" \notin DOMAIN resp.headers.dict THEN None
    ELSE IF "nonstr" \in DOMAIN resp.headers.dict["set-cookie"] THEN None
    ELSE LET m == ReSearch(resp.headers.dict["set-cookie"].str)
         IN  IF m.matched THEN Str(m.group1) ELSE None

\* C3: when login returns, the held token is the csrftoken value of the login
\* response's Set-Cookie header if there is one, and otherwise the token held
\* when the POST was sent.
C3_LoginToken ==
    (last.op = "login" /\ last.out.kind = "returned")
        => LET found == CookieToken(last.out.resp)
           IN  token[last.client] =
                   IF found # None THEN found ELSE HeldAtCall(Len(last.calls))

\* C3 witness: a login that held a token returned with the cookie's token held.
C3_Witness ==
    /\ last.op = "login"
    /\ last.out.kind = "returned"
    /\ Present(last.pre)
    /\ CookieToken(last.out.resp) # None
    /\ CookieToken(last.out.resp) # last.pre
    /\ token[last.client] = CookieToken(last.out.resp)

IsTokenFetch(call) == call.verb = "GET" /\ call.url = auth_token_url

IsLoginPost(call, cred) ==
    /\ call.verb = "POST"
    /\ call.url = auth_login_url
    /\ call.payload = [username |-> cred[1], password |-> cred[2]]

\* C4: login sends the token-fetch GET exactly when the client holds no token,
\* and then before the POST; with a token held it sends the POST alone.
C4_LoginRequests ==
    last.op = "login"
        => IF Present(last.pre)
           THEN Len(last.calls) = 1 /\ IsLoginPost(last.calls[1], last.args)
           ELSE /\ Len(last.calls) = 2
                /\ IsTokenFetch(last.calls[1])
                /\ IsLoginPost(last.calls[2], last.args)

\* C4 witness: a login without a token fetched one and then sent the POST.
C4_Witness ==
    /\ last.op = "login"
    /\ ~Present(last.pre)
    /\ Len(last.calls) = 2
    /\ last.calls[1].res.kind = "response"
    /\ last.calls[2].res.kind = "response"

\* the last call was made without a headers argument
NoHeadersArgument == last.op \in Verbs => ~last.args[1].given

\* C5: a request sent without caller-supplied headers carries the three base
\* headers, and X-CSRFToken exactly when a token is held at that moment, with
\* the value held at that moment.
C5_ComputedHeaders ==
    NoHeadersArgument
        => \A i \in 1..Len(last.calls) :
            LET sent == last.calls[i].headers
                held == HeldAtCall(i)
            IN  /\ DOMAIN sent \ {"X-CSRFToken"} = {"Content-Type", "Accept", "Connection"}
                /\ sent["Content-Type"] = "application/json"
                /\ sent["Accept"] = "application/json"
                /\ sent["Connection"] = "keep-alive"
                /\ "X-CSRFToken" \in DOMAIN sent <=> Present(held)
                /\ Present(held) => sent["X-CSRFToken"] = held

\* C5 witness: the POST of a login carried the token fetched just before, on a
\* client that held the empty token until then.
C5_Witness ==
    /\ last.op = "login"
    /\ last.pre = Str(<<>>)
    /\ Len(last.calls) = 2
    /\ "X-CSRFToken" \notin DOMAIN last.calls[1].headers
    /\ "X-CSRFToken" \in DOMAIN last.calls[2].headers
    /\ last.calls[2].headers["X-CSRFToken"] = FetchedFrom(last.calls[1].res)

\* C6 (as stated): a headers mapping passed to a verb is the mapping the
\* transport is called with, the empty mapping included; the computed headers
\* are used only when no headers argument is given.
C6_CallerHeadersUsed ==
    (last.op \in Verbs /\ last.calls # <<>>)
        => last.calls[1].headers =
               IF last.args[1].given THEN last.args[1].dict
               ELSE get_headers_with_token(last.pre)

\* the main request of the last call: the last one it sent
MainCall == last.calls[Len(last.calls)]

\* C7: no client method raises because of the status of the response: when the
\* transport answered its request, the method returns that very response,
\* whatever the status; the one raise after a response is login's, with the
\* error of reading that response's headers, not with its status.
C7_StatusNeverRaises ==
    (last.op \in Verbs \cup DomainMethods /\ last.calls # <<>>
        /\ MainCall.res.kind = "response")
        => \/ last.out = Returned(MainCall.res)
           \/ /\ last.op = "login"
              /\ "raises" \in DOMAIN MainCall.res.headers
              /\ last.out = Raised(MainCall.res.headers.raises)

\* C7 witness: a domain method returned a response with a non-2xx status.
C7_Witness ==
    /\ last.op = "create_test"
    /\ last.calls # <<>>
    /\ MainCall.res.kind = "response"
    /\ MainCall.res.status = 401
    /\ last.out = Returned(MainCall.res)

\* C8: a failure of the transport in a verb, in a domain method or in login's
\* POST reaches the caller as that failure, and no request is sent twice: the
\* failed call is the last one, each method sends one request, login one more
\* (its token fetch) before its POST.
C8_FailurePropagatesOnce ==
    last.op \in Verbs \cup DomainMethods
        => /\ \A i \in 1..Len(last.calls) :
                last.calls[i].res.kind = "failure"
                    => \/ i = Len(last.calls) /\ last.out = Raised(last.calls[i].res.exc)
                       \/ last.op = "login" /\ i = 1 /\ Len(last.calls) = 2
           /\ IF last.op = "login"
              THEN /\ Len(last.calls) <= 2
                   /\ Len(last.calls) = 2 => IsTokenFetch(last.calls[1])
                   /\ last.calls[Len(last.calls)].verb = "POST"
              ELSE Len(last.calls) <= 1

\* C8 witness: the POST of a login that had fetched a token failed, and login
\* raised that failure.
C8_Witness ==
    /\ last.op = "login"
    /\ Len(last.calls) = 2
    /\ last.calls[1].res.kind = "response"
    /\ last.calls[2].res.kind = "failure"
    /\ last.out = Raised(last.calls[2].res.exc)

\* reading the Set-Cookie header of resp raises an error
HeaderReadFails(resp) ==
    \/ "raises" \in DOMAIN resp.headers
    \/ /\ "set-cookie" \in DOMAIN resp.headers.dict
       /\ "nonstr" \in DOMAIN resp.headers.dict["set-cookie"]

\* C9 (as stated): get_csrf_token and extract_csrf_token never raise, and give
\* None on every error of the fetch or of reading the headers; so login raises
\* only with the transport failure of its POST.
C9_TokenRetrievalNeverRaises ==
    /\ last.op \in {"get_csrf_token", "extract_csrf_token"} => last.out.kind = "value"
    /\ (last.op = "get_csrf_token" /\ last.calls[1].res.kind = "failure")
        => last.out = Value(None)
    /\ (last.op = "extract_csrf_token" /\ HeaderReadFails(last.args[1]))
        => last.out = Value(None)
    /\ (last.op = "login" /\ last.out.kind = "raised")
        => MainCall.res.kind = "failure"

\* t is s without its leading and trailing whitespace
IsTrimOf(t, s) ==
    \E i \in 0..Len(s) : \E j \in i..Len(s) :
        /\ t = SubSeq(s, i + 1, j)
        /\ \A k \in 1..i : s[k] \in Whitespace
        /\ \A k \in (j + 1)..Len(s) : s[k] \in Whitespace
        /\ t = <<>> \/ (t[1] \notin Whitespace /\ t[Len(t)] \notin Whitespace)

\* C10: get_csrf_token sends one GET to /api/auth/token and returns the
\* trimmed body exactly when the status is 200 and the trimmed body is not
\* empty; otherwise it returns None.
C10_FetchResult ==
    last.op = "get_csrf_token"
        => LET res == last.calls[1].res
               hasBody == /\ res.kind = "response"
                          /\ res.status = 200
                          /\ "str" \in DOMAIN res.text
           IN  /\ Len(last.calls) = 1
               /\ IsTokenFetch(last.calls[1])
               /\ last.out.kind = "value"
               /\ IF hasBody /\ ~IsTrimOf(<<>>, res.text.str)
                  THEN /\ ~IsNone(last.out.val)
                       /\ IsTrimOf(last.out.val.str, res.text.str)
                  ELSE last.out.val = None

\* C10 witness: a body with whitespace around the token came back trimmed.
C10_Witness ==
    /\ last.op = "get_csrf_token"
    /\ ~IsNone(last.out.val)
    /\ last.out.val # last.calls[1].res.text
    /\ Len(last.calls[1].res.text.str) > Len(last.out.val.str)

(***************************************************************************)
(* Logging around the verbs.                                               *)
(***************************************************************************)
\* C11 (as stated): logging is a side effect only: whatever the headers, body
\* and params, a verb sends its request, raises nothing but the transport's
\* own failure and returns the transport's response unchanged, also when
\* writing the request or the response entry fails.
C11_LoggingNeverInterferes ==
    last.op \in Verbs
        => /\ Len(last.calls) = 1
           /\ last.out = VerbOut(last.calls[1].res)

\* the positions of the transport calls in the trace of the last call
TransportPositions == {i \in DOMAIN last.trace : last.trace[i].ev = "transport"}

\* the request sent by the transport call at position i of the trace
CallAt(i) == last.calls[Cardinality({j \in TransportPositions : j <= i})]

RequestLogBefore(i) ==
    /\ i > 1
    /\ last.trace[i - 1] = Event("request_log", last.trace[i].verb, last.trace[i].url)

ResponseLogAfter(i) ==
    /\ i < Len(last.trace)
    /\ last.trace[i + 1] = Event("response_log", last.trace[i].verb, last.trace[i].url)

\* every entry of the log belongs to the transport call next to it
EntriesPaired ==
    \A i \in DOMAIN last.trace :
        /\ last.trace[i].ev = "request_log"
            => i + 1 \in TransportPositions /\ RequestLogBefore(i + 1)
        /\ last.trace[i].ev = "response_log"
            => i - 1 \in TransportPositions /\ ResponseLogAfter(i - 1)

IdText(test_id) == IF "int" \in DOMAIN test_id THEN <<"4", "2">> ELSE test_id.str

\* a supplied name or description the request models reject
BadLength(v, max) == ~IsNone(v) /\ (Len(v.str) = 0 \/ Len(v.str) > max)

\* C13: create_test raises without sending when the name is empty or longer
\* than 100 or the description is empty or longer than 1000; otherwise it
\* sends exactly one POST to /api/tests/new with body {name, description}
\* holding the values given.
C13_CreateValidatesLocally ==
    last.op = "create_test"
        => IF BadLength(last.args[1], 100) \/ BadLength(last.args[2], 1000)
           THEN last.out.kind = "raised" /\ last.calls = <<>>
           ELSE /\ Len(last.calls) = 1
                /\ last.calls[1].verb = "POST"
                /\ last.calls[1].url = <<"/api/tests/new">>
                /\ last.calls[1].payload =
                       [name |-> last.args[1], description |-> last.args[2]]

\* C13 witness: a name of 100 and a description of 1000 characters were sent.
C13_Witness ==
    /\ last.op = "create_test"
    /\ Len(last.args[1].str) = 100
    /\ Len(last.args[2].str) = 1000
    /\ Len(last.calls) = 1

\* C14 (as stated): only create_test validates: the six other operations of
\* TestCasesClient send their request for every argument and never raise
\* before sending.
C14_OnlyCreateValidates ==
    last.op \in {"get_test_list", "get_test_by_id", "update_test", "partial_update_test",
                 "set_test_status", "delete_test"}
        => Len(last.calls) = 1

\* C14: get_test_list, get_test_by_id, set_test_status and delete_test send
\* their request for every argument; update_test and partial_update_test
\* raise without sending when a supplied name is empty or longer than 100 or
\* a supplied description is empty or longer than 1000, and send otherwise.
C14_UpdatesValidateToo ==
    /\ last.op \in {"get_test_list", "get_test_by_id", "set_test_status", "delete_test"}
        => Len(last.calls) = 1
    /\ last.op \in {"update_test", "partial_update_test"}
        => IF BadLength(last.args[2], 100) \/ BadLength(last.args[3], 1000)
           THEN last.out.kind = "raised" /\ last.calls = <<>>
           ELSE Len(last.calls) = 1

\* C14 witness: update_test with an empty name raised and sent nothing.
C14_Witness ==
    /\ last.op = "update_test"
    /\ last.args[2] = Str(<<>>)
    /\ last.out.kind = "raised"
    /\ last.calls = <<>>

\* C15: the body of the PATCH partial_update_test sends holds exactly the
\* fields supplied with a value, each with the value given; an absent field
\* is not in the body.
C15_PatchBodyHasSuppliedFields ==
    (last.op = "partial_update_test" /\ last.calls # <<>>)
        => LET body == last.calls[1].payload
           IN  /\ Len(last.calls) = 1
               /\ last.calls[1].verb = "PATCH"
               /\ last.calls[1].url = <<"/api/tests/">> \o IdText(last.args[1])
               /\ DOMAIN body \subseteq {"name", "description"}
               /\ "name" \in DOMAIN body <=> ~IsNone(last.args[2])
               /\ "description" \in DOMAIN body <=> ~IsNone(last.args[3])
               /\ "name" \in DOMAIN body => body.name = last.args[2]
               /\ "description" \in DOMAIN body => body.description = last.args[3]

\* C15 witness: a PATCH with the description only.
C15_Witness ==
    /\ last.op = "partial_update_test"
    /\ IsNone(last.args[2])
    /\ ~IsNone(last.args[3])
    /\ Len(last.calls) = 1
    /\ DOMAIN last.calls[1].payload = {"description"}

\* C16 (as stated): an UpdateTestRequest with neither name nor description
\* cannot be constructed, so partial_update_test called with neither raises
\* and sends no PATCH.
C16_EmptyUpdateRejected ==
    (last.op = "partial_update_test" /\ IsNone(last.args[2]) /\ IsNone(last.args[3]))
        => last.out.kind = "raised" /\ last.calls = <<>>

\* C17: set_test_status sends, for every status string, exactly one POST to
\* /api/tests/<id>/status with body {status: that string}, and returns what
\* the transport answered.
C17_AnyStatusSent ==
    last.op = "set_test_status"
        => /\ Len(last.calls) = 1
           /\ last.calls[1].verb = "POST"
           /\ last.calls[1].url = <<"/api/tests/">> \o IdText(last.args[1]) \o <<"/status">>
           /\ last.calls[1].payload = [status |-> last.args[2]]
           /\ last.calls[1].res.kind = "response"
                => last.out = Returned(last.calls[1].res)

\* C17 witness: a status outside the enumeration was sent and answered.
C17_Witness ==
    /\ last.op = "set_test_status"
    /\ last.args[2] = Str(<<"x">>)
    /\ Len(last.calls) = 1
    /\ last.calls[1].payload.status = Str(<<"x">>)
    /\ last.out.kind = "returned"

\* C18: get_test_list sends page exactly when page is given and size exactly
\* when size is given, 0 included, with the values given; with neither it
\* sends the GET without query parameters.
C18_ListParamsAsProvided ==
    last.op = "get_test_list"
        => LET params == last.calls[1].payload
           IN  /\ Len(last.calls) = 1
               /\ last.calls[1].verb = "GET"
               /\ last.calls[1].url = <<"/api/tests">>
               /\ IF IsNone(last.args[1]) /\ IsNone(last.args[2])
                  THEN params = None
                  ELSE /\ DOMAIN params \subseteq {"page", "size"}
                       /\ "page" \in DOMAIN params <=> ~IsNone(last.args[1])
                       /\ "size" \in DOMAIN params <=> ~IsNone(last.args[2])
                       /\ "page" \in DOMAIN params => params.page = last.args[1]
                       /\ "size" \in DOMAIN params => params.size = last.args[2]

\* C18 witness: page 0 alone was sent as a query parameter.
C18_Witness ==
    /\ last.op = "get_test_list"
    /\ last.args = <<PyInt(0), None>>
    /\ last.calls[1].payload = [page |-> PyInt(0)]

(***************************************************************************)
(* The parse functions.                                                    *)
(***************************************************************************)
\* the item, alone in a response, is parsed into a TestCase
ItemMaps(item) == parse_test_case(Json(item)).kind = "value"

\* C19: parse_test_list gives the empty list when the body has no tests key;
\* when every item of the tests array maps to a TestCase it gives one
\* TestCase per item, in the order of the array; when one item does not, it
\* raises ValueError and gives no list at all.
C19_ListParsedWhole ==
    (last.op = "parse_test_list" /\ "value" \in DOMAIN last.args[1]
        /\ IsObj(last.args[1].value))
        => LET d == last.args[1].value.obj
           IN  /\ "tests" \notin DOMAIN d => last.out = Value(<<>>)
               /\ ("tests" \in DOMAIN d /\ "arr" \in DOMAIN d.tests)
                    => LET items == d.tests.arr
                       IN  IF \A i \in DOMAIN items : ItemMaps(items[i])
                           THEN /\ last.out.kind = "value"
                                /\ Len(last.out.val) = Len(items)
                                /\ \A i \in DOMAIN items :
                                     Value(last.out.val[i]) = parse_test_case(Json(items[i]))
                           ELSE /\ last.out.kind = "raised"
                                /\ last.out.exc = "ValueError"

\* C19 witness: two items came back as two TestCases in the array's order.
C19_Witness ==
    /\ last.op = "parse_test_list"
    /\ last.args[1] = Json(JObj([tests |-> JArr(<<ItemPlain, ItemFull>>)]))
    /\ last.out.kind = "value"
    /\ Len(last.out.val) = 2
    /\ last.out.val[1].id = PyInt(8)
    /\ last.out.val[2].id = PyInt(7)

\* the parse functions of one record and the response model of each
RecordParsers ==
    [parse_create_response |-> CreateTestResponse, parse_test_case |-> TestCase,
     parse_update_response |-> TestCase,
     parse_set_status_response |-> SetTestStatusResponse, parse_statistics |-> Statistics]

\* the JSON value does not have the type the field declares
WrongType(decl, v) ==
    IF decl.type = "int" THEN "int" \notin DOMAIN v
    ELSE "str" \notin DOMAIN v /\ (decl.required \/ ~IsNone(v))

\* the body has every required field, and every field it has with its type
Mismatch(model, d) ==
    \E f \in DOMAIN model :
        \/ f \notin DOMAIN d /\ model[f].required
        \/ f \in DOMAIN d /\ WrongType(model[f], d[f])

\* C20 (as stated): a parse function returns a record with every field of its
\* model, or raises ValueError with the original error as its cause; it
\* raises whenever the body is no JSON object, or lacks a required field, or
\* has a field of the wrong type.
C20_ParseFailsOnMismatch ==
    last.op \in DOMAIN RecordParsers
        => LET j == last.args[1]
               model == RecordParsers[last.op]
           IN  /\ \/ last.out.kind = "value" /\ DOMAIN last.out.val = DOMAIN model
                  \/ /\ last.out.kind = "raised"
                     /\ last.out.exc = "ValueError"
                     /\ "cause" \in DOMAIN last.out
               /\ ("raises" \in DOMAIN j \/ ~IsObj(j.value) \/ Mismatch(model, j.value.obj))
                    => last.out.kind = "raised"

(***************************************************************************)
(* The response records.                                                   *)
(***************************************************************************)
StatisticsFields == {"total", "passed", "failed", "norun"}

\* C21 (as stated): parse_statistics fails whenever total, passed, failed or
\* norun is a negative integer.
C21_NegativeCountRejected ==
    (last.op = "parse_statistics" /\ "value" \in DOMAIN last.args[1]
        /\ IsObj(last.args[1].value))
        => LET d == last.args[1].value.obj
           IN  (\E f \in StatisticsFields \cap DOMAIN d :
                    "int" \in DOMAIN d[f] /\ d[f].int < 0)
                   => last.out.kind = "raised"

TestCaseParsers == {"parse_test_case", "parse_update_response"}

\* the status of the body handed to a TestCase parser, when it has one
BodyHasStatus ==
    /\ last.op \in TestCaseParsers
    /\ "value" \in DOMAIN last.args[1]
    /\ IsObj(last.args[1].value)
    /\ "status" \in DOMAIN last.args[1].value.obj

BodyStatus == last.args[1].value.obj.status

\* the body with its status field taken out
BodyWithoutStatus ==
    LET d == last.args[1].value.obj
    IN  JObj([k \in DOMAIN d \ {"status"} |-> d[k]])

StatusNames == {<<"P","A","S","S">>, <<"F","A","I","L">>, <<"N","o","r","u","n">>}

\* C22 (as stated): constructing a TestCase fails for every status string
\* other than PASS, FAIL and Norun.
C22_StatusEnumerated ==
    (BodyHasStatus /\ "str" \in DOMAIN BodyStatus /\ BodyStatus.str \notin StatusNames)
        => last.out.kind = "raised"

\* C22: a TestCase takes every status string, inside or outside the
\* enumeration, and keeps it as given; null and a missing status give None;
\* a status that is neither a string nor null makes the construction fail.
C22_AnyStatusStringKept ==
    (BodyHasStatus /\ ItemMaps(BodyWithoutStatus))
        => IF "str" \in DOMAIN BodyStatus
           THEN last.out.kind = "value" /\ last.out.val.status = BodyStatus
           ELSE IF IsNone(BodyStatus)
           THEN last.out.kind = "value" /\ last.out.val.status = None
           ELSE last.out.kind = "raised" /\ last.out.exc = "ValueError"

\* C22 witness: a status outside the enumeration was parsed and kept.
C22_Witness ==
    /\ BodyHasStatus
    /\ BodyStatus = Str(<<"x">>)
    /\ last.out.kind = "value"
    /\ last.out.val.status = Str(<<"x">>)

(***************************************************************************)
(* The token field of each client.                                         *)
(***************************************************************************)
\* C23: a step changes the csrf_token of no client other than the one the
\* operation was called on, also after a token was copied from one client to
\* another.
C23_OwnTokenOnly ==
    [][\A c \in Clients : token'[c] # token[c] => last'.client = c]_vars

\* C23 witness: a login replaced the token of the AuthClient while the other
\* client goes on holding the token the AuthClient held before.
C23_Witness ==
    /\ last.op = "login"
    /\ last.client = "auth"
    /\ Present(last.pre)
    /\ token["auth"] # last.pre
    /\ token["api"] = last.pre

\* C30: login stores the csrftoken of the login response's Set-Cookie header
\* whatever the status of that response, 401 as well as 200.
C30_TokenReplacedWhateverStatus ==
    (last.op = "login" /\ last.out.kind = "returned"
        /\ "dict" \in DOMAIN last.out.resp.headers
        /\ "set-cookie" \in DOMAIN last.out.resp.headers.dict
        /\ last.out.resp.headers.dict["set-cookie"] \in {Str(CookieXY), Str(CookieMiddle)})
        => token[last.client] = Str(<<"x", "y">>)

\* C30 witness: a login answered with 401 and a csrftoken cookie replaced the
\* token held before.
C30_Witness ==
    /\ last.op = "login"
    /\ last.out.kind = "returned"
    /\ last.out.resp.status = 401
    /\ Present(last.pre)
    /\ last.pre # Str(<<"x", "y">>)
    /\ token[last.client] = Str(<<"x", "y">>)

(***************************************************************************)
(* The run of a test: request context, generated names, fixture teardown.  *)
(***************************************************************************)
\* the requests a step adds to those of the running test
NewRequests == {i \in DOMAIN requests' : i > Len(requests)}

\* the steps of the fixtures that act through the AuthClient
AuthClientStep == pc \in {"start", "teardown_logout"}

\* C24 as stated: a login or logout through one client never changes the
\* cookies that the requests of another client carry.
C24_OwnSession ==
    [][AuthClientStep => jar'[RequestContextOf("api")] = jar[RequestContextOf("api")]]_vars

\* C24 amended: the clients share the session's request context, so every
\* request, of whichever client, carries the cookies that the context holds
\* from the responses to the earlier requests of all clients.
C24_SharedSession ==
    [][\A i \in NewRequests : \A c \in Clients :
          jar[RequestContextOf(c)] \subseteq requests'[i].cookies]_vars

\* C24 witness: the login started with no cookie stored, and the first request
\* of the TestCasesClient carries a cookie that a response to the AuthClient set.
C24_Witness ==
    \E i \in DOMAIN requests :
        /\ requests[i].client = "api"
        /\ requests[i].cookies # {}
        /\ \A j \in 1..(i - 1) : requests[j].client = "auth"
        /\ \E j \in 1..(i - 1) : requests[j].cookies = {}

\* C28 as stated: any two generated names with the same prefix differ,
\* within one worker and across workers.
C28_NamesUnique ==
    \A i, j \in DOMAIN names : i # j => names[i].name # names[j].name

\* the requests of the running test that are the DELETE of test_id
DeletesOf(test_id) ==
    {i \in DOMAIN requests :
        requests[i].verb = "DELETE" /\ requests[i].url = get_test_url(PyStr(test_id))}

Deletes == {i \in DOMAIN requests : requests[i].verb = "DELETE"}

Logouts ==
    {i \in DOMAIN requests : requests[i].verb = "GET" /\ requests[i].url = auth_logout_url}

\* C29: once the fixtures of a test are torn down: if created_test_id's setup
\* succeeded, exactly one DELETE was sent, for the created id, and the logout
\* was sent after it, whether the test passed or failed, and no exception
\* escaped; if the create was answered with another status than 201, the
\* fixture raised and no DELETE was sent.
C29_TeardownDeletesThenLogsOut ==
    pc = "done" =>
        /\ created # None =>
            /\ Cardinality(Deletes) = 1
            /\ Deletes = DeletesOf(created)
            /\ \E l \in Logouts : \A d \in Deletes : d < l
            /\ escaped = <<>>
        /\ (\E k \in DOMAIN escaped : escaped[k] = "ValueError") =>
            /\ created = None
            /\ Deletes = {}

\* C29 witness: a failed test is torn down; the transport failed on the DELETE
\* and on the logout, and nothing escaped.
C29_Witness ==
    /\ pc = "done"
    /\ created # None
    /\ verdict = "failed"
    /\ escaped = <<>>
    /\ \E d \in Deletes : ~requests[d].answered
    /\ \E l \in Logouts : ~requests[l].answered

====
